---- MODULE Spec2Model ----
(***************************************************************************)
(* Model of querylanguage.resolver.Parser: the recursive translation of a  *)
(* sqlglot expression tree into Django Q/F/Value/lookup objects, with the  *)
(* extra_params accumulator that _resolve_cone appends to.                 *)
(*                                                                         *)
(* The Python call stack of _resolve is the variable `stack`: one frame    *)
(* per active call, holding the node and the results of the sub-calls made *)
(* so far.  An exception unwinds the whole stack (nothing in the module    *)
(* catches across calls).                                                  *)
(*                                                                         *)
(* Library behaviour relied on (Django's expression classes):              *)
(*   - only Value has the attribute .value;                                *)
(*   - F, Value, lookups and combined expressions are Combinable: unary -  *)
(*     and + - * / build a CombinedExpression and never compute a number;  *)
(*     Q defines none of them;                                             *)
(*   - ~lookup is a NegatedExpression, lookup & lookup is Q(l) & Q(r);     *)
(*   - _meta.get_field raises django's FieldDoesNotExist, related_model is *)
(*     None for a non-relational field.                                    *)
(***************************************************************************)
EXTENDS Integers, Sequences, FiniteSets, TLC

VARIABLES extra_params, query, stack, result, parse_base

vars == <<extra_params, query, stack, result, parse_base>>

(* ------------------------------ bounds -------------------------------- *)
\* parse() is started only while fewer than MaxCones records are stored
MaxCones == 2
\* longest dotted path offered to _resolve_column
MaxPath == 3
\* largest argument count of a cone call with the wrong number of arguments
MaxConeArgs == 4
\* longest value list of an IN node
MaxInList == 2

(* --------------------------- python values ---------------------------- *)
PyInt(n) == [py |-> "int", n |-> n]
PyFloat(num, den) == [py |-> "float", num |-> num, den |-> den]
PyStr(s) == [py |-> "str", s |-> s]
PyBool(b) == [py |-> "bool", b |-> b]

IsNumeric(v) == v.py \in {"int", "float"}

\* unary minus on a python number
PyNeg(v) ==
  IF v.py = "int" THEN PyInt(0 - v.n) ELSE PyFloat(0 - v.num, v.den)

\* text (literal text, identifiers, field names) is a sequence of characters
Digits == <<"0", "1", "2", "3", "4", "5", "6", "7", "8", "9">>

DigitVal(c) == (CHOOSE i \in 1..10 : Digits[i] = c) - 1

RECURSIVE IntOf(_)
\* int(text): text is the literal's characters
IntOf(text) ==
  IF Len(text) = 0 THEN 0
  ELSE 10 * IntOf(SubSeq(text, 1, Len(text) - 1)) + DigitVal(text[Len(text)])

RECURSIVE Pow10(_)
Pow10(n) == IF n = 0 THEN 1 ELSE 10 * Pow10(n - 1)

\* float(text) as the exact decimal fraction num/den
FloatOf(text) ==
  IF \E i \in 1..Len(text) : text[i] = "."
  THEN LET dot == CHOOSE i \in 1..Len(text) : text[i] = "."
           ds == SubSeq(text, 1, dot - 1) \o SubSeq(text, dot + 1, Len(text))
       IN PyFloat(IntOf(ds), Pow10(Len(text) - dot))
  ELSE PyFloat(IntOf(text), 1)

RECURSIVE Str(_)
\* str(n) for n >= 0
Str(n) ==
  IF n < 10 THEN <<Digits[n + 1]>> ELSE Str(n \div 10) \o <<Digits[(n % 10) + 1]>>

RECURSIVE Join(_)
\* "__".join(names)
Join(names) ==
  IF Len(names) = 1 THEN names[1]
  ELSE names[1] \o <<"_", "_">> \o Join(Tail(names))

LowerChar(c) ==
  CASE c = "C" -> "c"
    [] c = "O" -> "o"
    [] c = "N" -> "n"
    [] c = "E" -> "e"
    [] OTHER -> c

\* str.lower()
Lower(s) == [i \in 1..Len(s) |-> LowerChar(s[i])]

(* ------------------------- resolved objects --------------------------- *)
Value(v) == [t |-> "Value", value |-> v]
F(name) == [t |-> "F", name |-> name]
\* Q(x): one positional child
Q(x) == [t |-> "Q", connector |-> "AND", negated |-> FALSE, children |-> <<x>>]
\* Q(**{name: True})
QKw(name, v) ==
  [t |-> "Q", connector |-> "AND", negated |-> FALSE,
   children |-> <<[kw |-> name, value |-> v]>>]
\* a & b and a | b of two single-child, non-negated Q: the children are merged
QCombine(a, b, conn) ==
  [t |-> "Q", connector |-> conn, negated |-> FALSE,
   children |-> a.children \o b.children]
\* ~q
QInvert(q) == [q EXCEPT !.negated = ~q.negated]
Lookup(name, lhs, rhs) == [t |-> "Lookup", lookup_name |-> name, lhs |-> lhs, rhs |-> rhs]
CombinedExpression(lhs, connector, rhs) ==
  [t |-> "CombinedExpression", lhs |-> lhs, connector |-> connector, rhs |-> rhs]
NegatedExpression(e) == [t |-> "NegatedExpression", expression |-> e]

\* hasattr(x, "value")
HasValueAttr(x) == x.t = "Value"
\* the arithmetic operators are those of Combinable, which Q is not
IsCombinable(x) == x.t # "Q"

(* ----------------------------- outcomes ------------------------------- *)
Ok(v) == [status |-> "ok", val |-> v]
Raise(e) == [status |-> "raise", exc |-> e]
NoResult == [status |-> "none"]

\* querylanguage.exceptions
FieldDoesNotExist(field) == [cls |-> "FieldDoesNotExist", field |-> field]
InvalidQuery == [cls |-> "InvalidQuery"]
InvalidLiteral == [cls |-> "InvalidLiteral"]
InvalidConeNumberArguments == [cls |-> "InvalidConeNumberArguments"]
\* exceptions that are not the package's own
DjangoFieldDoesNotExist == [cls |-> "django.core.exceptions.FieldDoesNotExist"]
AttributeError == [cls |-> "AttributeError"]
TypeError == [cls |-> "TypeError"]

TypedErrors ==
  {"FieldDoesNotExist", "InvalidQuery", "InvalidLiteral", "InvalidConeNumberArguments"}

(* ------------------------- expression nodes --------------------------- *)
Literal(text, kind) ==
  [k |-> "Literal", this |-> text, is_string |-> (kind = "string"),
   is_int |-> (kind = "int"), is_number |-> (kind \in {"int", "number"})]
Identifier(name, quoted) == [this |-> name, quoted |-> quoted]
Column(parts) == [k |-> "Column", parts |-> parts]
Unary(k, this) == [k |-> k, this |-> this]
Binary(k, left, right) == [k |-> k, left |-> left, right |-> right]
Between(this, low, high) == [k |-> "Between", this |-> this, low |-> low, high |-> high]
In(this, expressions) == [k |-> "In", this |-> this, expressions |-> expressions]
Anonymous(name, expressions) == [k |-> "Anonymous", this |-> name, expressions |-> expressions]
Null == [k |-> "Null"]
Star == [k |-> "Star"]

IsCone(p) == p.k = "Anonymous" /\ Lower(p.this) = <<"c", "o", "n", "e">>

(* --------------------------- schema catalog --------------------------- *)
None == "None"
TargetModel == "MainModel"
\* model -> field name -> related_model (None for a plain field)
Schema ==
  [m \in {"MainModel", "RelatedModel"} |->
     IF m = "MainModel"
     THEN [f \in {<<"a">>, <<"r">>} |-> IF f = <<"r">> THEN "RelatedModel" ELSE None]
     ELSE [f \in {<<"b">>, <<"m">>} |-> IF f = <<"m">> THEN "MainModel" ELSE None]]

HasField(model, name) == name \in DOMAIN Schema[model]

(* -------------------------- _resolve_column --------------------------- *)
RECURSIVE WalkRelations(_, _)
\* the while loop: consume every segment but the last, following related_model
WalkRelations(model, parts) ==
  IF Len(parts) > 1
  THEN IF model = None THEN Raise(AttributeError)
       ELSE IF ~HasField(model, parts[1].this) THEN Raise(DjangoFieldDoesNotExist)
       ELSE WalkRelations(Schema[model][parts[1].this], Tail(parts))
  ELSE Ok([model |-> model, parts |-> parts])

\* "__".join([part.this for part in p.parts])
FullFieldName(parts) == Join([i \in 1..Len(parts) |-> parts[i].this])

\* the try block: existence of the last segment on the model reached
LastSegmentCheck(model, last, all) ==
  IF model = None THEN Raise(AttributeError)
  ELSE IF ~HasField(model, last.this) THEN Raise(FieldDoesNotExist(last.this))
  ELSE Ok(F(FullFieldName(all)))

_resolve_column(p) ==
  LET w == WalkRelations(TargetModel, p.parts)
  IN IF w.status = "raise" THEN w
     ELSE LastSegmentCheck(w.val.model, w.val.parts[1], p.parts)

(* ------------------- _resolve: the branches' results ------------------ *)
ConeArgCountOkMut(p) == Len(p.expressions) <= 3
\* the guard of _resolve_cone's first statement
ConeArgCountOk(p) == Len(p.expressions) = 3

\* the sub-expressions a branch resolves, in the order it resolves them
Operands(p) ==
  CASE p.k \in {"Literal", "Column"} -> <<>>
    [] p.k \in {"Neg", "Not", "Paren"} -> <<p.this>>
    [] p.k \in {"EQ", "Is", "NEQ"} ->
         IF p.right.k = "Null" THEN <<p.left>> ELSE <<p.left, p.right>>
    [] p.k \in {"And", "Or", "GT", "LT", "GTE", "LTE", "RegexpLike",
                "Add", "Sub", "Mul", "Div"} -> <<p.left, p.right>>
    [] p.k = "Between" -> <<p.this, p.low, p.this, p.high>>
    [] p.k = "In" -> <<p.this>> \o p.expressions
    [] p.k = "Anonymous" ->
         IF IsCone(p) /\ ConeArgCountOk(p) THEN p.expressions ELSE <<>>
    [] OTHER -> <<>>

LiteralResult(p) ==
  IF p.is_string THEN Ok(Value(PyStr(p.this)))
  ELSE IF p.is_int THEN Ok(Value(PyInt(IntOf(p.this))))
  ELSE IF p.is_number THEN Ok(Value(FloatOf(p.this)))
  ELSE Raise(InvalidLiteral)

ColumnResult(p) ==
  IF p.parts[Len(p.parts)].quoted
  THEN Ok(Value(PyStr(p.parts[Len(p.parts)].this)))
  ELSE _resolve_column(p)

\* -x for a resolved object x
Negative(x) ==
  IF IsCombinable(x) THEN Ok(CombinedExpression(x, "*", Value(PyInt(0 - 1))))
  ELSE Raise(TypeError)

NegResult(p, vals) ==
  IF p.this.k = "Literal" /\ ~p.this.is_string
  THEN Ok(Value(PyNeg(vals[1].value)))
  ELSE Negative(vals[1])

NotResult(p, vals) == Ok(QInvert(Q(vals[1])))

ParenResult(p, vals) == Ok(vals[1])

LogicalResult(p, vals) ==
  Ok(QCombine(Q(vals[1]), Q(vals[2]), IF p.k = "And" THEN "AND" ELSE "OR"))

EqualityResultMut(p, vals) ==
  IF p.right.k = "Null"
  THEN Ok(Lookup("isnull", vals[1], PyBool(TRUE)))
  ELSE IF p.k = "NEQ"
       THEN Ok(NegatedExpression(Lookup("exact", vals[1], vals[2])))
       ELSE Ok(Lookup("exact", vals[1], vals[2]))
EqualityResult(p, vals) ==
  IF p.right.k = "Null"
  THEN Ok(Lookup("isnull", vals[1], PyBool(p.k # "NEQ")))
  ELSE IF p.k = "NEQ"
       THEN Ok(NegatedExpression(Lookup("exact", vals[1], vals[2])))
       ELSE Ok(Lookup("exact", vals[1], vals[2]))

LookupName(k) ==
  CASE k = "GT" -> "gt"
    [] k = "LT" -> "lt"
    [] k = "GTE" -> "gte"
    [] k = "LTE" -> "lte"
    [] k = "RegexpLike" -> "icontains"

ComparisonResult(p, vals) == Ok(Lookup(LookupName(p.k), vals[1], vals[2]))

Connector(k) ==
  CASE k = "Add" -> "+"
    [] k = "Sub" -> "-"
    [] k = "Mul" -> "*"
    [] k = "Div" -> "/"

ArithMut(l, conn, r) ==
  IF ~IsCombinable(l) /\ ~IsCombinable(r) THEN Raise(TypeError)
  ELSE Ok(CombinedExpression(r, conn, l))
\* l <conn> r through Combinable.__add__ or, when l is a Q, r's __radd__
Arith(l, conn, r) ==
  IF ~IsCombinable(l) /\ ~IsCombinable(r) THEN Raise(TypeError)
  ELSE Ok(CombinedExpression(l, conn, r))

ArithResult(p, vals) == Arith(vals[1], Connector(p.k), vals[2])

BetweenResult(p, vals) ==
  Ok(QCombine(Q(Lookup("gte", vals[1], vals[2])),
              Q(Lookup("lte", vals[3], vals[4])), "AND"))

InResult(p, vals) == Ok(Lookup("in", vals[1], Tail(vals)))

(* --------------------------- _resolve_cone ---------------------------- *)
ConeIndexMut(cones) == Len(cones) + 1
\* cone_index, read before the append
ConeIndex(cones) == Len(cones)

ConeIndexStr(cone_index) == IF cone_index = 0 THEN <<>> ELSE Str(cone_index)

ConeQuery == <<"c", "o", "n", "e", "_", "q", "u", "e", "r", "y">>

\* f"cone_query{cone_index_str}"
ConeFieldName(cone_index) == ConeQuery \o ConeIndexStr(cone_index)

ConeParams(vals) ==
  [cone_ra |-> vals[1], cone_dec |-> vals[2], cone_radius |-> vals[3]]

\* self.extra_params['cones'].append(cone_params)
AppendCone(cones, cone_params) == Append(cones, cone_params)

ConeResult(cones) == Ok(QKw(ConeFieldName(ConeIndex(cones)), PyBool(TRUE)))

\* what the calling frame does with a sub-result: _resolve_cone reads .value
\* of each argument as soon as it is resolved, every other branch keeps it
Receive(p, v) ==
  IF IsCone(p)
  THEN IF HasValueAttr(v) THEN Ok(v.value) ELSE Raise(AttributeError)
  ELSE Ok(v)

(* ------------------------------ inputs -------------------------------- *)
L1 == Literal(<<"1">>, "int")
L2 == Literal(<<"2">>, "int")
L10 == Literal(<<"1", "0">>, "int")
LF == Literal(<<"0", ".", "5">>, "number")
LS == Literal(<<"x">>, "string")
LBad == Literal(<<"?">>, "other")
ColA == Column(<<Identifier(<<"a">>, FALSE)>>)
ColZ == Column(<<Identifier(<<"z">>, FALSE)>>)
ColQ == Column(<<Identifier(<<"a">>, TRUE)>>)
Cone(args) == Anonymous(<<"c", "o", "n", "e">>, args)
ConeA == Cone(<<L1, L2, L10>>)
ConeB == Anonymous(<<"C", "O", "N", "E">>, <<L10, Unary("Neg", L2), LF>>)

Names == {<<"a">>, <<"r">>, <<"b">>, <<"m">>, <<"z">>}

SeqsUpTo(S, n) == UNION {[1..i -> S] : i \in 0..n}

Paths == SeqsUpTo(Names, MaxPath) \ {<<>>}

ColumnQueries ==
  {Column([i \in 1..Len(path) |-> Identifier(path[i], FALSE)]) : path \in Paths}

ConeArgs ==
  {L1, L10, LF, LS, LBad, ColA, ColQ, Unary("Neg", L2), Binary("Add", L1, L2), ConeA}

ConeQueries == {Cone(args) : args \in [1..3 -> ConeArgs]}

BadCountArgs == {L1, ConeA, Star}

BadCountCones ==
  {Cone(args) : args \in SeqsUpTo(BadCountArgs, MaxConeArgs) \ [1..3 -> BadCountArgs]}

Leaves ==
  {L1, LF, LS, LBad, ColA, ColZ, ColQ, Null, Star, ConeA, ConeB,
   Cone(<<L1, L2>>), Anonymous(<<"b", "o", "x">>, <<L1, L2, L10>>)}

UnaryKinds == {"Neg", "Not", "Paren"}
BinaryKinds ==
  {"And", "Or", "EQ", "Is", "NEQ", "GT", "LT", "GTE", "LTE", "RegexpLike",
   "Add", "Sub", "Mul", "Div"}

UnaryQueries == {Unary(k, x) : k \in UnaryKinds, x \in Leaves}
BinaryQueries == {Binary(k, x, y) : k \in BinaryKinds, x \in Leaves, y \in Leaves}

RangeEnds == {L1, ColZ, ConeB}
BetweenQueries == {Between(x, lo, hi) : x \in Leaves, lo \in RangeEnds, hi \in RangeEnds}

InItems == {L1, ColZ, ConeB}
InQueries == {In(x, items) : x \in Leaves, items \in SeqsUpTo(InItems, MaxInList)}

Preds ==
  {ConeA, ConeB, Cone(<<L1, L2>>), Cone(<<ColA, L1, L2>>),
   Binary("EQ", ColA, L1), Binary("EQ", ColZ, L1),
   Unary("Not", ConeA), Unary("Paren", ConeB), Binary("And", ConeA, ConeB),
   Between(ConeA, L1, L2), In(ConeB, <<L1>>), Unary("Neg", Unary("Not", ColA)),
   Binary("Add", Unary("Not", ColA), Unary("Paren", ConeA))}

NestedQueries ==
  {Binary(k, x, y) : k \in {"And", "Or"}, x \in Preds, y \in Preds}
    \cup {Unary(k, x) : k \in {"Not", "Paren"}, x \in Preds}

\* what a fresh Parser is asked to resolve
FreshQueries ==
  Leaves \cup ColumnQueries \cup ConeQueries \cup BadCountCones \cup UnaryQueries
    \cup BinaryQueries \cup BetweenQueries \cup InQueries \cup NestedQueries

\* what a Parser that already holds cone records is asked to resolve next
ReuseQueries ==
  Preds \cup {ColA, ColZ, Cone(<<ConeA>>), Cone(<<LS, L1, L2>>),
              Binary("And", ConeB, ColZ), Binary("Or", ConeA, ConeB)}

Queries(first) == IF first THEN FreshQueries ELSE ReuseQueries

(* ------------------------------ machine ------------------------------- *)
Frame(p) == [p |-> p, vals |-> <<>>]

Init ==
  /\ extra_params = [cones |-> <<>>, aliases |-> <<>>]
  /\ query = Null
  /\ stack = <<>>
  /\ result = NoResult
  /\ parse_base = 0

Running == Len(stack) > 0
Top == stack[Len(stack)]
\* the top frame has resolved all the sub-expressions of its branch
Ready(kinds) ==
  /\ Running
  /\ Top.p.k \in kinds
  /\ Len(Top.vals) = Len(Operands(Top.p))

\* the top call ends with outcome `out`: an exception unwinds every frame, a
\* value goes to the calling frame, or to the caller of parse
Finish(out) ==
  IF out.status = "raise"
  THEN stack' = <<>> /\ result' = out
  ELSE IF Len(stack) = 1
       THEN stack' = <<>> /\ result' = out
       ELSE LET n == Len(stack)
                caller == stack[n - 1]
                got == Receive(caller.p, out.val)
            IN IF got.status = "raise"
               THEN stack' = <<>> /\ result' = got
               ELSE /\ stack' = [SubSeq(stack, 1, n - 1) EXCEPT
                                   ![n - 1].vals = Append(caller.vals, got.val)]
                    /\ UNCHANGED result

ParseMut(q) ==
  /\ ~Running
  /\ Len(extra_params.cones) < MaxCones
  /\ query' = q
  /\ stack' = <<Frame(q)>>
  /\ result' = NoResult
  /\ parse_base' = 0
  /\ extra_params' = [cones |-> <<>>, aliases |-> <<>>]
\* Parser.parse: the tree sqlglot built for the query text; parse_base notes
\* how many records the accumulator held when parse was called
Parse(q) ==
  /\ ~Running
  /\ Len(extra_params.cones) < MaxCones
  /\ query' = q
  /\ stack' = <<Frame(q)>>
  /\ result' = NoResult
  /\ parse_base' = Len(extra_params.cones)
  /\ UNCHANGED extra_params

\* a recursive call self._resolve(<next sub-expression>)
Call ==
  /\ Running
  /\ Len(Top.vals) < Len(Operands(Top.p))
  /\ stack' = Append(stack, Frame(Operands(Top.p)[Len(Top.vals) + 1]))
  /\ UNCHANGED <<extra_params, query, result, parse_base>>

Pure(kinds, out) ==
  /\ Ready(kinds)
  /\ Finish(out)
  /\ UNCHANGED <<extra_params, query, parse_base>>

ResolveLiteral == Pure({"Literal"}, LiteralResult(Top.p))
ResolveColumn == Pure({"Column"}, ColumnResult(Top.p))
ResolveNeg == Pure({"Neg"}, NegResult(Top.p, Top.vals))
ResolveNot == Pure({"Not"}, NotResult(Top.p, Top.vals))
ResolveParen == Pure({"Paren"}, ParenResult(Top.p, Top.vals))
ResolveLogical == Pure({"And", "Or"}, LogicalResult(Top.p, Top.vals))
ResolveEquality == Pure({"EQ", "Is", "NEQ"}, EqualityResult(Top.p, Top.vals))
ResolveComparison ==
  Pure({"GT", "LT", "GTE", "LTE", "RegexpLike"}, ComparisonResult(Top.p, Top.vals))
ResolveArith == Pure({"Add", "Sub", "Mul", "Div"}, ArithResult(Top.p, Top.vals))
ResolveBetween == Pure({"Between"}, BetweenResult(Top.p, Top.vals))
ResolveIn == Pure({"In"}, InResult(Top.p, Top.vals))

\* _resolve_cone refusing the call before any argument is resolved
ConeRefuse ==
  /\ Running /\ IsCone(Top.p)
  /\ ~ConeArgCountOk(Top.p)
  /\ Finish(Raise(InvalidConeNumberArguments))
  /\ UNCHANGED <<extra_params, query, parse_base>>

ResolveConeMut ==
  /\ Running /\ IsCone(Top.p)
  /\ ConeArgCountOk(Top.p)
  /\ Len(Top.vals) = 3
  /\ extra_params' = [extra_params EXCEPT !.cones = <<ConeParams(Top.vals)>>]
  /\ Finish(ConeResult(extra_params.cones))
  /\ UNCHANGED <<query, parse_base>>
\* _resolve_cone after its three arguments: name, append, return
ResolveCone ==
  /\ Running /\ IsCone(Top.p)
  /\ ConeArgCountOk(Top.p)
  /\ Len(Top.vals) = 3
  /\ extra_params' =
       [extra_params EXCEPT !.cones = AppendCone(extra_params.cones, ConeParams(Top.vals))]
  /\ Finish(ConeResult(extra_params.cones))
  /\ UNCHANGED <<query, parse_base>>

HandledKinds ==
  {"Literal", "Column", "Neg", "Not", "Paren", "And", "Or", "EQ", "Is", "NEQ",
   "GT", "LT", "GTE", "LTE", "RegexpLike", "Add", "Sub", "Mul", "Div",
   "Between", "In"}

\* the final else
ResolveOther ==
  /\ Running
  /\ Top.p.k \notin HandledKinds /\ ~IsCone(Top.p)
  /\ Finish(Raise(InvalidQuery))
  /\ UNCHANGED <<extra_params, query, parse_base>>

Next ==
  \/ \E q \in Queries(result = NoResult) : Parse(q)
  \/ Call
  \/ ResolveLiteral
  \/ ResolveColumn
  \/ ResolveNeg
  \/ ResolveNot
  \/ ResolveParen
  \/ ResolveLogical
  \/ ResolveEquality
  \/ ResolveComparison
  \/ ResolveArith
  \/ ResolveBetween
  \/ ResolveIn
  \/ ConeRefuse
  \/ ResolveCone
  \/ ResolveOther

Spec == Init /\ [][Next]_vars

(* ============================== claims ================================ *)
Cones == extra_params.cones

IsPrefix(s, t) == Len(s) <= Len(t) /\ SubSeq(t, 1, Len(s)) = s

\* the step in progress ends the top call normally
Succeeds ==
  \/ Len(stack) = 1 /\ result'.status = "ok"
  \/ Len(stack) > 1 /\ Len(stack') = Len(stack) - 1
\* the caller of the top call keeps the object returned (a cone call keeps
\* only its .value)
CallerKeeps == Len(stack) = 1 \/ ~IsCone(stack[Len(stack) - 1].p)
HandedValue ==
  IF Len(stack) = 1 THEN result'.val
  ELSE stack'[Len(stack) - 1].vals[Len(stack'[Len(stack) - 1].vals)]
\* the step in progress returns v from the top call
Handed(v) == CallerKeeps => (Succeeds /\ HandedValue = v)

\* decimal numeral of 1 <= n < 100, written out
DecimalSuffix(n) ==
  IF n < 10 THEN <<Digits[n + 1]>>
  ELSE <<Digits[(n \div 10) + 1], Digits[(n % 10) + 1]>>

ExpectedConeName(len) ==
  IF len = 0 THEN ConeQuery ELSE ConeQuery \o DecimalSuffix(len)

ConeCompletes ==
  Running /\ IsCone(Top.p) /\ Len(Top.p.expressions) = 3 /\ Len(Top.vals) = 3

\* C1: a cone call that completes returns the predicate <name> = true, where
\* the name is cone_query for an accumulator of length 0 before the append and
\* cone_query followed by the decimal length L for L >= 1; its record is stored
\* at 0-based index L.
C1_ConeNaming ==
  [][ConeCompletes =>
       LET len == Len(Cones)
       IN /\ Len(extra_params'.cones) = len + 1
          /\ extra_params'.cones[len + 1] =
               [cone_ra |-> Top.vals[1], cone_dec |-> Top.vals[2],
                cone_radius |-> Top.vals[3]]
          /\ Handed(QKw(ExpectedConeName(len), PyBool(TRUE)))]_vars

C1_Witness ==
  /\ ~Running
  /\ query = Binary("And", ConeA, ConeB)
  /\ result.status = "ok"
  /\ result.val.children =
       <<QKw(ConeQuery, PyBool(TRUE)), QKw(ConeQuery \o <<"1">>, PyBool(TRUE))>>
  /\ Len(Cones) = 2
  /\ Cones[2] = [cone_ra |-> PyInt(10), cone_dec |-> PyInt(0 - 2),
                 cone_radius |-> PyFloat(5, 10)]

\* the python value a cone argument denotes when it is a scalar
RECURSIVE ScalarOf(_)
ScalarOf(p) ==
  CASE p.k = "Literal" -> LiteralResult(p).val.value
    [] p.k = "Neg" -> PyNeg(ScalarOf(p.this))
    [] p.k = "Column" -> PyStr(p.parts[Len(p.parts)].this)

RECURSIVE ConeRecords(_)
RECURSIVE ConeRecordsOfAll(_)
\* the records of the cone calls of a tree, one per call, left to right
ConeRecords(p) ==
  CASE p.k \in {"Neg", "Not", "Paren"} -> ConeRecords(p.this)
    [] p.k \in BinaryKinds -> ConeRecords(p.left) \o ConeRecords(p.right)
    [] p.k = "Between" ->
         ConeRecords(p.this) \o ConeRecords(p.low) \o ConeRecords(p.high)
    [] p.k = "In" -> ConeRecords(p.this) \o ConeRecordsOfAll(p.expressions)
    [] p.k = "Anonymous" ->
         IF IsCone(p)
         THEN ConeRecordsOfAll(p.expressions)
                \o <<[cone_ra |-> ScalarOf(p.expressions[1]),
                      cone_dec |-> ScalarOf(p.expressions[2]),
                      cone_radius |-> ScalarOf(p.expressions[3])]>>
         ELSE <<>>
    [] OTHER -> <<>>
ConeRecordsOfAll(ps) ==
  IF Len(ps) = 0 THEN <<>> ELSE ConeRecords(Head(ps)) \o ConeRecordsOfAll(Tail(ps))

\* C2: after a successful resolve on a fresh Parser the cones list holds
\* exactly one record per cone call of the tree, in left-to-right order.
C2_OneRecordPerCall ==
  (~Running /\ result.status = "ok" /\ parse_base = 0)
    => Cones = ConeRecords(query)

\* C3: resolve ends with a value or with one of the package's four errors.
C3_TypedErrorsOnly ==
  result.status = "raise" => result.exc.cls \in TypedErrors

RECURSIVE ColumnContract(_, _, _)
\* what the field path contract promises for a dotted path
ColumnContract(model, rest, all) ==
  IF Len(rest) > 1
  THEN IF ~HasField(model, rest[1].this) THEN Raise(FieldDoesNotExist(rest[1].this))
       ELSE IF Schema[model][rest[1].this] = None
            THEN Raise(FieldDoesNotExist(rest[1].this))
            ELSE ColumnContract(Schema[model][rest[1].this], Tail(rest), all)
  ELSE IF ~HasField(model, rest[1].this) THEN Raise(FieldDoesNotExist(rest[1].this))
       ELSE Ok(F(Join([i \in 1..Len(all) |-> all[i].this])))

\* C4: a dotted path fails with FieldDoesNotExist(segment) at the first
\* segment that is missing (or, before the end, not relational) and otherwise
\* yields the field reference of all segments joined with "__".
C4_ColumnContract ==
  (~Running /\ query.k = "Column" /\ ~query.parts[Len(query.parts)].quoted)
    => result = ColumnContract(TargetModel, query.parts, query.parts)

\* C5: every record of the cones list has three numeric components.
C5_NumericRecords ==
  \A i \in 1..Len(Cones) :
    /\ IsNumeric(Cones[i].cone_ra)
    /\ IsNumeric(Cones[i].cone_dec)
    /\ IsNumeric(Cones[i].cone_radius)

\* C6: a cone call whose argument count is not 3 fails with
\* InvalidConeNumberArguments in its first step: no argument is resolved and
\* the accumulator is what it was.
C6_ConeArity ==
  [][(Running /\ IsCone(Top.p) /\ Len(Top.p.expressions) # 3) =>
       /\ result' = Raise(InvalidConeNumberArguments)
       /\ stack' = <<>>
       /\ extra_params' = extra_params]_vars

C6_Witness ==
  /\ ~Running
  /\ query = Cone(<<ConeA, Star>>)
  /\ result = Raise(InvalidConeNumberArguments)
  /\ Cones = <<>>
  /\ extra_params.aliases = <<>>

ArithKinds == {"Add", "Sub", "Mul", "Div"}

\* C7 as stated: two scalar literals fold to one scalar literal, a field
\* reference on either side gives the composed expression, left operand first.
C7_LiteralsFold ==
  [][Ready(ArithKinds) =>
       LET l == Top.vals[1]
           r == Top.vals[2]
       IN /\ (l.t = "Value" /\ r.t = "Value")
               => (CallerKeeps => (Succeeds /\ HandedValue.t = "Value"))
          /\ (l.t = "F" \/ r.t = "F")
               => Handed(CombinedExpression(l, Connector(Top.p.k), r))]_vars

\* C7 (amended): with two scalar literals, or a field reference on either
\* side, the result is the composed expression over the two resolved operands,
\* left operand first; two literals are not folded.
C7_Composed ==
  [][Ready(ArithKinds) =>
       LET l == Top.vals[1]
           r == Top.vals[2]
       IN ((l.t = "Value" /\ r.t = "Value") \/ l.t = "F" \/ r.t = "F")
            => Handed(CombinedExpression(l, Connector(Top.p.k), r))]_vars

C7_Witness ==
  /\ ~Running
  /\ query = Binary("Sub", L1, LF)
  /\ result = Ok(CombinedExpression(Value(PyInt(1)), "-", Value(PyFloat(5, 10))))

\* C8: EQ and Is give isnull(left, True) for a NULL right side and
\* exact(left, right) otherwise, NEQ gives isnull(left, False) and
\* not exact(left, right); a NULL right side is never resolved.
C8_Equality ==
  [][(Running /\ Top.p.k \in {"EQ", "Is", "NEQ"}) =>
       IF Top.p.right = Null
       THEN IF Len(Top.vals) = 0
            THEN stack' = Append(stack, Frame(Top.p.left))
            ELSE Handed(Lookup("isnull", Top.vals[1], PyBool(Top.p.k # "NEQ")))
       ELSE Len(Top.vals) = 2 =>
              Handed(IF Top.p.k = "NEQ"
                     THEN NegatedExpression(Lookup("exact", Top.vals[1], Top.vals[2]))
                     ELSE Lookup("exact", Top.vals[1], Top.vals[2]))]_vars

C8_Witness ==
  /\ ~Running
  /\ query = Binary("NEQ", ColA, Null)
  /\ result = Ok(Lookup("isnull", F(<<"a">>), PyBool(FALSE)))

\* C9: parse does not reset the accumulator, and the first cone call that
\* completes in a resolution is named from the number of records k the earlier
\* resolutions left: cone_query for k = 0, cone_query<k> for k >= 1.
C9_Accumulates ==
  [][/\ ~Running => extra_params' = extra_params
     /\ (ConeCompletes /\ Len(Cones) = parse_base) =>
          /\ extra_params'.cones = Append(Cones, ConeParams(Top.vals))
          /\ Handed(QKw(ExpectedConeName(parse_base), PyBool(TRUE)))]_vars

C9_Witness ==
  /\ ~Running
  /\ parse_base = 1
  /\ query = ConeB
  /\ result = Ok(QKw(ConeQuery \o <<"1">>, PyBool(TRUE)))
  /\ Len(Cones) = 2

\* C10: every step leaves the old cones list as a prefix of the new one, in
\* failing resolutions too.
C10_AppendOnly == [][IsPrefix(Cones, extra_params'.cones)]_vars

C10_Witness ==
  /\ ~Running
  /\ query.k = "And"
  /\ result = Raise(FieldDoesNotExist(<<"z">>))
  /\ Len(Cones) = parse_base + 1

====
